---- MODULE Spec2Model ----
(***************************************************************************)
(* Model of src/src/lineage_extractor.py: the SSIS lineage extractor       *)
(* (SSISLineageExtractor), the graph builder (LineageGraphBuilder) and the *)
(* batch driver (main).                                                    *)
(*                                                                         *)
(* Python strings are TLA+ strings, handled character by character with    *)
(* Len, SubSeq and \o.  Optional values (None or a value) are sequences of *)
(* length 0 or 1.  Dictionaries are functions whose domain is the key set; *)
(* lists that the code builds from the distinct values of a dictionary are *)
(* sets (their order is not modelled).                                     *)
(***************************************************************************)
EXTENDS Integers, Sequences, FiniteSets, TLC

VARIABLES
    assets,               \* SSISLineageExtractor.assets
    transformations,      \* SSISLineageExtractor.transformations
    all_assets,           \* main: all_assets
    all_transformations,  \* main: all_transformations
    history,              \* main: the documents handed to extract_from_dtsx so far
    prev,                 \* the extractor's dictionaries before the last call
    nodes,                \* graph store: the nodes
    edges,                \* graph store: the relationships
    lineage,              \* get_lineage_for_asset: its result
    pc,                   \* main: position
    sql,                  \* _parse_sql_tables: the clauses of its argument
    tables                \* _parse_sql_tables: its result

vars == <<assets, transformations, all_assets, all_transformations, history,
          prev, nodes, edges, lineage, pc, sql, tables>>

-----------------------------------------------------------------------------
(* Bounds of the model                                                     *)

MaxDocs == 3       \* documents in a batch
MaxClauses == 2    \* clauses in a generated query text

-----------------------------------------------------------------------------
(* Python values                                                           *)

None == <<>>
Some(x) == <<x>>
IsNone(o) == o = <<>>
Value(o) == o[1]

\* `a or b` on an optional string: a unless it is None or empty.
OrElse(o, d) == IF IsNone(o) \/ Value(o) = "" THEN d ELSE Value(o)

EmptyDict == [k \in {} |-> k]
DictSet(d, k, v) == [x \in (DOMAIN d) \cup {k} |-> IF x = k THEN v ELSE d[x]]
DictUpdate(d, e) == [x \in (DOMAIN d) \cup (DOMAIN e) |-> IF x \in DOMAIN e THEN e[x] ELSE d[x]]
DictValues(d) == {d[k] : k \in DOMAIN d}

Min(a, b) == IF a < b THEN a ELSE b

-----------------------------------------------------------------------------
(* Characters and the pieces of the regular expressions                    *)

Char(s, i) == SubSeq(s, i, i)
LowerAlpha == "abcdefghijklmnopqrstuvwxyz"
UpperAlpha == "ABCDEFGHIJKLMNOPQRSTUVWXYZ"
Digits == "0123456789"
CharsOf(s) == {Char(s, i) : i \in 1..Len(s)}
WordChars == CharsOf(LowerAlpha) \cup CharsOf(UpperAlpha) \cup CharsOf(Digits) \cup {"_"}
SpaceChars == {" ", "\t", "\n", "\r"}

\* str.upper(), one character
UpperChar(c) ==
    IF c \in CharsOf(LowerAlpha)
    THEN Char(UpperAlpha, CHOOSE i \in 1..Len(LowerAlpha) : Char(LowerAlpha, i) = c)
    ELSE c

\* str.upper()
RECURSIVE StrUpper(_)
StrUpper(s) ==
    IF s = "" THEN "" ELSE UpperChar(Char(s, 1)) \o StrUpper(SubSeq(s, 2, Len(s)))

\* `sub in s`
Contains(sub, s) ==
    \E i \in 1..(Len(s) - Len(sub) + 1) : SubSeq(s, i, i + Len(sub) - 1) = sub

\* The first index >= i of s that is not in the class cs (Len(s)+1 if none):
\* where a greedy cs+ or cs* that starts at i stops.
RECURSIVE SpanEnd(_, _, _)
SpanEnd(cs, s, i) ==
    IF i <= Len(s) /\ Char(s, i) \in cs THEN SpanEnd(cs, s, i + 1) ELSE i

\* KW1\s+KW2\s+ ... KWn\s+ matched at index i: the index after it, or 0.
RECURSIVE MatchKeywords(_, _, _)
MatchKeywords(kws, s, i) ==
    IF kws = <<>> THEN i
    ELSE LET k == kws[1]
             j == i + Len(k)
             e == SpanEnd(SpaceChars, s, j)
         IN  IF j - 1 <= Len(s) /\ SubSeq(s, i, j - 1) = k /\ e > j
             THEN MatchKeywords(Tail(kws), s, e)
             ELSE 0

\* (\w+(?:\.\w+)?) matched at index i: the index after it, or 0.
MatchIdentifier(s, i) ==
    LET e1 == SpanEnd(WordChars, s, i)
        e2 == SpanEnd(WordChars, s, e1 + 1)
    IN  IF e1 = i THEN 0
        ELSE IF e1 <= Len(s) /\ Char(s, e1) = "." /\ e2 > e1 + 1 THEN e2
        ELSE e1

\* re.findall(r'KW1\s+...KWn\s+(\w+(?:\.\w+)?)', s) from index i on, as a set:
\* the leftmost match, then the search goes on after it.
RECURSIVE FindAll(_, _, _)
FindAll(kws, s, i) ==
    IF i > Len(s) THEN {}
    ELSE LET b == MatchKeywords(kws, s, i)
             e == IF b = 0 THEN 0 ELSE MatchIdentifier(s, b)
         IN  IF e = 0 THEN FindAll(kws, s, i + 1)
             ELSE {SubSeq(s, b, e - 1)} \cup FindAll(kws, s, e)

from_pattern == <<"FROM">>
join_pattern == <<"JOIN">>
insert_pattern == <<"INSERT", "INTO">>
update_pattern == <<"UPDATE">>
delete_pattern == <<"DELETE", "FROM">>

\* SSISLineageExtractor._parse_sql_tables
ParseSqlTables(text) ==
    LET sql_upper == StrUpper(text)
    IN  [source_tables |-> FindAll(from_pattern, sql_upper, 1)
                           \cup FindAll(join_pattern, sql_upper, 1),
         target_tables |-> FindAll(insert_pattern, sql_upper, 1)
                           \cup FindAll(update_pattern, sql_upper, 1)
                           \cup FindAll(delete_pattern, sql_upper, 1)]

-----------------------------------------------------------------------------
(* Query texts for the resolver: clauses in any order                      *)

SourceKeywords == {"from", "JOIN"}
TargetKeywords == {"INSERT INTO", "Update", "DELETE  FROM"}
Identifiers == {"StgCustomer", "dbo.Dim_Customer"}
Clauses == [kw : SourceKeywords \cup TargetKeywords, id : Identifiers]

RECURSIVE SeqsUpTo(_, _)
SeqsUpTo(S, n) ==
    IF n = 0 THEN {<<>>}
    ELSE LET shorter == SeqsUpTo(S, n - 1)
         IN  shorter \cup {Append(q, x) : q \in {r \in shorter : Len(r) = n - 1}, x \in S}

\* The text of a sequence of clauses: "KEYWORD identifier", joined by spaces.
RECURSIVE Render(_)
Render(cs) ==
    IF cs = <<>> THEN ""
    ELSE (IF Len(cs) = 1 THEN "" ELSE Render(SubSeq(cs, 1, Len(cs) - 1)) \o " ")
         \o cs[Len(cs)].kw \o " " \o cs[Len(cs)].id

-----------------------------------------------------------------------------
(* The parsed document: what ET.parse and the findall calls hand to the    *)
(* extractor.  A document has a path stem (the package name), the data-flow *)
(* executables and the SQL-task executables in document order; a component  *)
(* or task has its name attribute (None when absent) and its <property>     *)
(* children, each with a name attribute and a text.                         *)

Property(n, t) == [name |-> Some(n), text |-> t]

SrcStgCustomer ==
    [name |-> Some("STGCUSTOMER"),
     properties |-> <<Property("AccessMode", Some("0")),
                      Property("OpenRowset", Some("[dbo].[StgCustomer]"))>>]
SrcOrders == [name |-> Some("Orders Source"), properties |-> <<>>]
SrcUnnamed == [name |-> None, properties |-> <<Property("TableOrViewName", None)>>]
DstDimCustomer ==
    [name |-> Some("DIMCUSTOMER"),
     properties |-> <<Property("OpenRowset", Some("DimCustomer"))>>]
DstFactSales ==
    [name |-> Some("Fact Destination"),
     properties |-> <<Property("TableOrViewName", Some("FactSales"))>>]

LoadCustomers ==
    [ObjectName |-> Some("LoadCustomers"),
     sources |-> <<SrcStgCustomer>>, destinations |-> <<DstDimCustomer>>]
LoadSales ==
    [ObjectName |-> Some("LoadSales"),
     sources |-> <<SrcOrders, SrcUnnamed>>, destinations |-> <<DstFactSales>>]

MergeCustomers ==
    [ObjectName |-> Some("MergeCustomers"),
     properties |-> <<Property("TimeOut", Some("0")),
                      Property("SQLStatement",
                               Some("INSERT INTO DimCustomer SELECT * FROM StgCustomer"))>>]
RefreshStats ==
    [ObjectName |-> Some("RefreshStats"),
     properties |-> <<Property("SQLStatement", Some("EXEC sp_updatestats"))>>]
PurgeStaging ==
    [ObjectName |-> Some("PurgeStaging"),
     properties |-> <<Property("TimeOut", Some("0"))>>]
ArchiveSales ==
    [ObjectName |-> None,
     properties |-> <<Property("SQLStatement", None)>>]

Document(stem, dataflows, sqltasks) ==
    [stem |-> stem, exists |-> TRUE, wellformed |-> TRUE,
     dataflows |-> dataflows, sqltasks |-> sqltasks]

\* A document that is not well-formed XML, and a path with no file.
Malformed ==
    [stem |-> "Customer", exists |-> TRUE, wellformed |-> FALSE,
     dataflows |-> <<LoadSales>>, sqltasks |-> <<MergeCustomers>>]
Missing ==
    [stem |-> "Sales", exists |-> FALSE, wellformed |-> TRUE,
     dataflows |-> <<LoadCustomers>>, sqltasks |-> <<>>]

Documents ==
    {Document("Customer", <<LoadCustomers>>, <<>>),
     Document("Customer", <<>>, <<MergeCustomers>>),
     Document("Customer", <<LoadCustomers>>, <<MergeCustomers>>),
     Document("Sales", <<LoadCustomers, LoadSales>>, <<PurgeStaging>>),
     Document("Sales", <<>>, <<RefreshStats, ArchiveSales>>),
     Malformed, Missing}

-----------------------------------------------------------------------------
(* SSISLineageExtractor                                                    *)

DataAsset(id, name, type, schema) ==
    [id |-> id, name |-> name, type |-> type, schema |-> schema,
     database |-> None, columns |-> None]

DataTransformation(id, name, type, source_assets, target_assets, logic) ==
    [id |-> id, name |-> name, type |-> type,
     source_assets |-> source_assets, target_assets |-> target_assets,
     transformation_logic |-> logic]

\* f"{package_name}_{name}"
MakeId(package_name, name) == package_name \o "_" \o name

\* element.get(attribute, default)
GetAttr(o, default) == IF IsNone(o) THEN default ELSE Value(o)

\* SSISLineageExtractor._extract_table_name
RECURSIVE ExtractTableName(_)
ExtractTableName(props) ==
    IF props = <<>> THEN None
    ELSE IF props[1].name \in {Some("OpenRowset"), Some("TableOrViewName")}
         THEN props[1].text
         ELSE ExtractTableName(Tail(props))

\* SSISLineageExtractor._extract_sql_statement
RECURSIVE ExtractSqlStatement(_)
ExtractSqlStatement(props) ==
    IF props = <<>> THEN None
    ELSE IF Contains("SQL", GetAttr(props[1].name, ""))
         THEN props[1].text
         ELSE ExtractSqlStatement(Tail(props))

\* The loops of _extract_data_flows over the sources / destinations of one
\* data flow: one dictionary assignment per component.
RECURSIVE RegisterComponents(_, _, _, _, _)
RegisterComponents(as, package_name, comps, type, default_name) ==
    IF comps = <<>> THEN as
    ELSE LET comp_name == GetAttr(comps[1].name, default_name)
             table_name == ExtractTableName(comps[1].properties)
             asset_id == MakeId(package_name, comp_name)
             asset == DataAsset(asset_id, OrElse(table_name, comp_name), type, Some("dbo"))
         IN  RegisterComponents(DictSet(as, asset_id, asset), package_name,
                                Tail(comps), type, default_name)

\* The ids the transformation of a data flow is given (lines 118-119).
AssetIdsOfType(as, type) == {a.id : a \in {b \in DictValues(as) : b.type = type}}

\* SSISLineageExtractor._extract_data_flows; st = [assets, transformations]
RECURSIVE ExtractDataFlows(_, _, _)
ExtractDataFlows(st, package_name, data_flows) ==
    IF data_flows = <<>> THEN st
    ELSE LET df == data_flows[1]
             df_name == GetAttr(df.ObjectName, "Unknown")
             as1 == RegisterComponents(st.assets, package_name, df.sources,
                                       "source_table", "Unknown Source")
             as2 == RegisterComponents(as1, package_name, df.destinations,
                                       "target_table", "Unknown Destination")
             trans_id == MakeId(package_name, df_name)
             trans == DataTransformation(trans_id, df_name, "ssis_dataflow",
                          Some(AssetIdsOfType(as2, "source_table")),
                          Some(AssetIdsOfType(as2, "target_table")), None)
         IN  ExtractDataFlows(
                 [assets |-> as2,
                  transformations |-> DictSet(st.transformations, trans_id, trans)],
                 package_name, Tail(data_flows))

\* The assets one SQL statement registers for a set of table names.
TableAssets(package_name, names, type) ==
    [id \in {MakeId(package_name, t) : t \in names} |->
        LET t == CHOOSE n \in names : MakeId(package_name, n) = id
        IN  DataAsset(id, t, type, None)]

LogicLimit == 500

\* sql_statement[:500]
Truncate(s) == SubSeq(s, 1, Min(LogicLimit, Len(s)))

\* SSISLineageExtractor._extract_sql_tasks: for a task with a statement, the
\* source tables are registered, then the target tables (a table in both ends
\* as a target), then the transformation.
RECURSIVE ExtractSqlTasks(_, _, _)
ExtractSqlTasks(st, package_name, sql_tasks) ==
    IF sql_tasks = <<>> THEN st
    ELSE LET task == sql_tasks[1]
             task_name == GetAttr(task.ObjectName, "Unknown SQL Task")
             sql_statement == ExtractSqlStatement(task.properties)
             found == ParseSqlTables(Value(sql_statement))
             trans_id == MakeId(package_name, task_name)
             trans == DataTransformation(trans_id, task_name, "sql_task", None, None,
                                         Some(Truncate(Value(sql_statement))))
             st1 == IF IsNone(sql_statement) \/ Value(sql_statement) = ""
                    THEN st
                    ELSE [assets |->
                            DictUpdate(
                              DictUpdate(st.assets,
                                TableAssets(package_name, found.source_tables, "source_table")),
                              TableAssets(package_name, found.target_tables, "target_table")),
                          transformations |-> DictSet(st.transformations, trans_id, trans)]
         IN  ExtractSqlTasks(st1, package_name, Tail(sql_tasks))

\* SSISLineageExtractor.extract_from_dtsx: the extractor's dictionaries after
\* the call and the pair it returns.  ET.parse raises on a document that is not
\* well-formed, before anything is registered; the handler returns ({}, {}).
\* _extract_connections only logs.
ExtractFromDtsx(st, doc) ==
    IF ~doc.wellformed
    THEN [assets |-> st.assets, transformations |-> st.transformations,
          ret_assets |-> EmptyDict, ret_transformations |-> EmptyDict]
    ELSE LET st1 == ExtractDataFlows(st, doc.stem, doc.dataflows)
             st2 == ExtractSqlTasks(st1, doc.stem, doc.sqltasks)
         IN  [assets |-> st2.assets, transformations |-> st2.transformations,
              ret_assets |-> st2.assets, ret_transformations |-> st2.transformations]

-----------------------------------------------------------------------------
(* LineageGraphBuilder: the graph store holds labelled nodes with           *)
(* properties and typed, directed relationships between nodes.              *)

AssetNode(a) ==
    [label |-> "Asset", id |-> a.id, name |-> a.name, type |-> a.type,
     schema |-> a.schema, database |-> a.database, logic |-> None]

TransformationNode(t) ==
    [label |-> "Transformation", id |-> t.id, name |-> t.name, type |-> t.type,
     schema |-> None, database |-> None, logic |-> t.transformation_logic]

\* MATCH (n:label {id: $id})
Match(ns, label, id) == {n \in ns : n.label = label /\ n.id = id}

\* `if trans.source_assets:` -- neither None nor empty
Truthy(list) == ~IsNone(list) /\ Value(list) # {}

\* A builder that creates the asset node a source id names when none matches
\* (MERGE in the place of MATCH).
FeedsInto_Merge(ns, source_ids, trans_id) ==
    {[type |-> "FEEDS_INTO",
      from |-> [label |-> "Asset", id |-> source_id, name |-> source_id, type |-> "unknown",
                schema |-> None, database |-> None, logic |-> None],
      to |-> t] : source_id \in source_ids, t \in Match(ns, "Transformation", trans_id)}

\* for source_id in trans.source_assets:
\*     MATCH (a:Asset {id: $source_id}) MATCH (t:Transformation {id: $trans_id})
\*     CREATE (a)-[:FEEDS_INTO]->(t)
FeedsInto(ns, source_ids, trans_id) ==
    UNION {{[type |-> "FEEDS_INTO", from |-> a, to |-> t] :
                a \in Match(ns, "Asset", source_id),
                t \in Match(ns, "Transformation", trans_id)} : source_id \in source_ids}

\* for target_id in trans.target_assets:
\*     MATCH (t:Transformation {id: $trans_id}) MATCH (a:Asset {id: $target_id})
\*     CREATE (t)-[:PRODUCES]->(a)
Produces(ns, target_ids, trans_id) ==
    UNION {{[type |-> "PRODUCES", from |-> t, to |-> a] :
                t \in Match(ns, "Transformation", trans_id),
                a \in Match(ns, "Asset", target_id)} : target_id \in target_ids}

\* The loop over transformations.values(): the node, then its relationships.
RECURSIVE AddTransformations(_, _)
AddTransformations(g, ts) ==
    IF ts = {} THEN g
    ELSE LET trans == CHOOSE t \in ts : TRUE
             ns == g.nodes \cup {TransformationNode(trans)}
             feeds == IF Truthy(trans.source_assets)
                      THEN FeedsInto(ns, Value(trans.source_assets), trans.id)
                      ELSE {}
             prods == IF Truthy(trans.target_assets)
                      THEN Produces(ns, Value(trans.target_assets), trans.id)
                      ELSE {}
         IN  AddTransformations([nodes |-> ns, edges |-> g.edges \cup feeds \cup prods],
                                ts \ {trans})

\* LineageGraphBuilder.create_lineage_graph: the store is cleared first.
CreateLineageGraph(as, ts) ==
    AddTransformations([nodes |-> {AssetNode(a) : a \in DictValues(as)}, edges |-> {}],
                       DictValues(ts))

MaxHops == 10

\* The paths of one more relationship: a relationship is used once in a path.
Extend(es, paths) ==
    UNION {{Append(p, e) :
                e \in {f \in es : f.from = p[Len(p)].to /\ \A i \in 1..Len(p) : p[i] # f}} :
           p \in paths}

RECURSIVE PathsFrom(_, _, _)
PathsFrom(es, frontier, hops) ==
    IF hops = 0 \/ frontier = {} THEN {}
    ELSE frontier \cup PathsFrom(es, Extend(es, frontier), hops - 1)

\* -[:TYPE*..max_hops]-> : the paths of 1 to max_hops relationships of the types
VarLengthPaths(es, types, max_hops) ==
    LET typed == {e \in es : e.type \in types}
    IN  PathsFrom(typed, {<<e>> : e \in typed}, max_hops)

\* A query that follows relationships of any type with no hop limit, -[*]->
\* (a path then ends only when every relationship has been used).
UpstreamPattern_Unbounded(asset_name) ==
    [types |-> {"FEEDS_INTO", "PRODUCES"}, max_hops |-> Cardinality(edges),
     source_name |-> None, target_name |-> Some(asset_name)]

\* (source:Asset)-[:FEEDS_INTO*..10]->(target:Asset {name: $asset_name})
UpstreamPattern(asset_name) ==
    [types |-> {"FEEDS_INTO"}, max_hops |-> MaxHops,
     source_name |-> None, target_name |-> Some(asset_name)]

\* (source:Asset {name: $asset_name})-[:PRODUCES*..10]->(target:Asset)
DownstreamPattern(asset_name) ==
    [types |-> {"PRODUCES"}, max_hops |-> MaxHops,
     source_name |-> Some(asset_name), target_name |-> None]

NodeMatches(n, label, name) == n.label = label /\ (IsNone(name) \/ n.name = Value(name))

\* MATCH path = (source:Asset ...)-[...]->(target:Asset ...) RETURN path
MatchPaths(es, pat) ==
    {p \in VarLengthPaths(es, pat.types, pat.max_hops) :
        /\ NodeMatches(p[1].from, "Asset", pat.source_name)
        /\ NodeMatches(p[Len(p)].to, "Asset", pat.target_name)}

\* record["path"].nodes, each as {"id", "name", "type": node.labels}
PathData(p) ==
    LET ns == <<p[1].from>> \o [i \in 1..Len(p) |-> p[i].to]
    IN  [i \in 1..Len(ns) |-> [id |-> ns[i].id, name |-> ns[i].name, type |-> {ns[i].label}]]

\* LineageGraphBuilder.get_lineage_for_asset: the UNION of the two queries
GetLineageForAsset(es, asset_name) ==
    [asset |-> asset_name,
     lineage_paths |-> {PathData(p) : p \in MatchPaths(es, UpstreamPattern(asset_name))
                                          \cup MatchPaths(es, DownstreamPattern(asset_name))}]

-----------------------------------------------------------------------------
(* main: one extractor, the packages in order, then the graph and a query  *)

NoLineage == [asset |-> "", lineage_paths |-> {}]

Init ==
    /\ assets = EmptyDict
    /\ transformations = EmptyDict
    /\ all_assets = EmptyDict
    /\ all_transformations = EmptyDict
    /\ history = <<>>
    /\ prev = [assets |-> EmptyDict, transformations |-> EmptyDict]
    /\ nodes = {}
    /\ edges = {}
    /\ lineage = NoLineage
    /\ pc = "extract"
    /\ sql = ""
    /\ tables = [source_tables |-> {}, target_tables |-> {}]

\* A driver that assigns what the call returned instead of merging it.
MainUpdate_Assign(all, returned) == returned

\* all_assets.update(assets); all_transformations.update(transformations)
MainUpdate(all, returned) == DictUpdate(all, returned)

\* One iteration of the loop of main on a package whose file exists.
ExtractPackage ==
    /\ pc = "extract"
    /\ Len(history) < MaxDocs
    /\ \E doc \in Documents :
        /\ doc.exists
        /\ LET r == ExtractFromDtsx([assets |-> assets, transformations |-> transformations], doc)
           IN  /\ assets' = r.assets
               /\ transformations' = r.transformations
               /\ all_assets' = MainUpdate(all_assets, r.ret_assets)
               /\ all_transformations' = MainUpdate(all_transformations, r.ret_transformations)
        /\ history' = Append(history, doc)
        /\ prev' = [assets |-> assets, transformations |-> transformations]
    /\ UNCHANGED <<nodes, edges, lineage, pc, sql, tables>>

\* One iteration on a package whose file does not exist: it is passed over.
SkipPackage ==
    /\ pc = "extract"
    /\ Len(history) < MaxDocs
    /\ \E doc \in Documents :
        /\ ~doc.exists
        /\ history' = Append(history, doc)
    /\ UNCHANGED <<assets, transformations, all_assets, all_transformations, prev,
                   nodes, edges, lineage, pc, sql, tables>>

\* graph_builder.create_lineage_graph(all_assets, all_transformations)
BuildGraph ==
    /\ pc = "extract"
    /\ LET g == CreateLineageGraph(all_assets, all_transformations)
       IN  nodes' = g.nodes /\ edges' = g.edges
    /\ pc' = "built"
    /\ UNCHANGED <<assets, transformations, all_assets, all_transformations, history,
                   prev, lineage, sql, tables>>

AssetNames(ns) == {n.name : n \in {m \in ns : m.label = "Asset"}}

\* graph_builder.get_lineage_for_asset(name); main asks for "DimCustomer"
QueryLineage ==
    /\ pc = "built"
    /\ \E asset_name \in AssetNames(nodes) \cup {"DimCustomer"} :
        lineage' = GetLineageForAsset(edges, asset_name)
    /\ pc' = "queried"
    /\ UNCHANGED <<assets, transformations, all_assets, all_transformations, history,
                   prev, nodes, edges, sql, tables>>

Next == ExtractPackage \/ SkipPackage \/ BuildGraph \/ QueryLineage

Spec == Init /\ [][Next]_vars

-----------------------------------------------------------------------------
(* create_lineage_graph and get_lineage_for_asset on any dictionaries:     *)
(* three assets that may or may not be registered (two of them share a      *)
(* name), and one or two transformations whose lists are None or refer to   *)
(* any of their ids.                                                        *)

PoolAssets ==
    {DataAsset("Customer_STGCUSTOMER", "StgCustomer", "source_table", Some("dbo")),
     DataAsset("Customer_DIMCUSTOMER", "DimCustomer", "target_table", Some("dbo")),
     DataAsset("Sales_DIMCUSTOMER", "DimCustomer", "target_table", None)}
PoolIds == {a.id : a \in PoolAssets}

IdLists == {None} \cup {Some(ids) : ids \in SUBSET PoolIds}

DictOf(S) == [id \in {x.id : x \in S} |-> CHOOSE x \in S : x.id = id]

InitGraph ==
    /\ assets = EmptyDict
    /\ transformations = EmptyDict
    /\ \E registered \in SUBSET PoolAssets : all_assets = DictOf(registered)
    /\ \E s1 \in IdLists, t1 \in IdLists, s2 \in IdLists, t2 \in IdLists,
          second \in BOOLEAN :
        all_transformations = DictOf(
            {DataTransformation("Customer_LoadCustomers", "LoadCustomers", "ssis_dataflow",
                                s1, t1, None)}
            \cup IF second
                 THEN {DataTransformation("Sales_LoadSales", "LoadSales", "ssis_dataflow",
                                          s2, t2, None)}
                 ELSE {})
    /\ history = <<>>
    /\ prev = [assets |-> EmptyDict, transformations |-> EmptyDict]
    /\ nodes = {}
    /\ edges = {}
    /\ lineage = NoLineage
    /\ pc = "extract"
    /\ sql = ""
    /\ tables = [source_tables |-> {}, target_tables |-> {}]

NextGraph == BuildGraph \/ QueryLineage

SpecGraph == InitGraph /\ [][NextGraph]_vars

-----------------------------------------------------------------------------
(* _parse_sql_tables on any generated query text                           *)

InitSql ==
    /\ assets = EmptyDict
    /\ transformations = EmptyDict
    /\ all_assets = EmptyDict
    /\ all_transformations = EmptyDict
    /\ history = <<>>
    /\ prev = [assets |-> EmptyDict, transformations |-> EmptyDict]
    /\ nodes = {}
    /\ edges = {}
    /\ lineage = NoLineage
    /\ pc = "sql"
    /\ sql \in SeqsUpTo(Clauses, MaxClauses)
    /\ tables = [source_tables |-> {}, target_tables |-> {}]

ParseSql ==
    /\ pc = "sql"
    /\ tables' = ParseSqlTables(Render(sql))
    /\ pc' = "parsed"
    /\ UNCHANGED <<assets, transformations, all_assets, all_transformations, history,
                   prev, nodes, edges, lineage, sql>>

NextSql == ParseSql

SpecSql == InitSql /\ [][NextSql]_vars

-----------------------------------------------------------------------------
(* Properties                                                              *)

WasCalled(doc) == doc.exists
WasExtracted(doc) == doc.exists /\ doc.wellformed

\* The documents extract_from_dtsx was called on, in order, and the last one.
Calls == SelectSeq(history, WasCalled)
LastCall == Calls[Len(Calls)]
Extracted == Calls # <<>> /\ LastCall.wellformed

Range(q) == {q[i] : i \in 1..Len(q)}
AsSet(list) == IF IsNone(list) THEN {} ELSE Value(list)
ComponentIds(stem, comps, default_name) ==
    {MakeId(stem, GetAttr(c.name, default_name)) : c \in Range(comps)}

\* C1: after an extraction, the transformation of every data-flow task of the
\* document has as source_assets exactly the ids of the assets of the task's
\* own source components and as target_assets exactly those of its own
\* destination components.
C1_DataFlowOwnAssets ==
    Extracted =>
        \A df \in Range(LastCall.dataflows) :
            LET t == transformations[MakeId(LastCall.stem, GetAttr(df.ObjectName, "Unknown"))]
            IN  /\ t.source_assets =
                      Some(ComponentIds(LastCall.stem, df.sources, "Unknown Source"))
                /\ t.target_assets =
                      Some(ComponentIds(LastCall.stem, df.destinations, "Unknown Destination"))

\* The node data of a path through the given asset, transformation and asset.
NodeData(x, label) == [id |-> x.id, name |-> x.name, type |-> {label}]

\* C2: on a graph built from one transformation T with source_assets {S} and
\* target_assets {D}, the lineage of D's name is exactly the one path [S, T, D].
C2_SinglePath ==
    \A t \in DictValues(all_transformations), s \in PoolIds, d \in PoolIds :
        ( /\ pc = "queried"
          /\ DOMAIN all_transformations = {t.id}
          /\ t.source_assets = Some({s}) /\ t.target_assets = Some({d})
          /\ s # d /\ {s, d} \subseteq DOMAIN all_assets
          /\ all_assets[s].name # all_assets[d].name
          /\ lineage.asset = all_assets[d].name )
        => lineage.lineage_paths =
              {<<NodeData(all_assets[s], "Asset"), NodeData(t, "Transformation"),
                 NodeData(all_assets[d], "Asset")>>}

Lists(ts) == [id \in DOMAIN ts |-> <<AsSet(ts[id].source_assets), AsSet(ts[id].target_assets)>>]

\* C3: a second extraction of the document just extracted leaves the set of
\* asset ids, the set of transformation ids and every transformation's
\* source_assets and target_assets as they were after the first.
C3_ReextractionIdempotent ==
    (Len(Calls) >= 2 /\ Extracted /\ Calls[Len(Calls) - 1] = LastCall) =>
        /\ DOMAIN assets = DOMAIN prev.assets
        /\ DOMAIN transformations = DOMAIN prev.transformations
        /\ Lists(transformations) = Lists(prev.transformations)

\* C4: an asset that is registered again under the same id keeps every field
\* (type, schema, database, columns) that was present before.
C4_RegistrationKeepsFields ==
    Extracted =>
        \A id \in DOMAIN prev.assets :
            /\ id \in DOMAIN assets
            /\ assets[id].type = prev.assets[id].type
            /\ \A f \in {"schema", "database", "columns"} :
                  ~IsNone(prev.assets[id][f]) => assets[id][f] = prev.assets[id][f]

HasStatement(task) ==
    LET stmt == ExtractSqlStatement(task.properties)
    IN  ~IsNone(stmt) /\ Value(stmt) # ""
TaskId(stem, task) == MakeId(stem, GetAttr(task.ObjectName, "Unknown SQL Task"))
TaskTables(task) == ParseSqlTables(Value(ExtractSqlStatement(task.properties)))

\* C5: the transformation of an SQL task has as source_assets the ids of the
\* assets of the statement's source tables and as target_assets those of its
\* target tables, and the graph has the FEEDS_INTO and PRODUCES edges for them.
C5_SqlTaskLineage ==
    Extracted =>
        \A task \in {k \in Range(LastCall.sqltasks) : HasStatement(k)} :
            LET id == TaskId(LastCall.stem, task)
                src == {MakeId(LastCall.stem, n) : n \in TaskTables(task).source_tables}
                tgt == {MakeId(LastCall.stem, n) : n \in TaskTables(task).target_tables}
            IN  /\ AsSet(transformations[id].source_assets) = src
                /\ AsSet(transformations[id].target_assets) = tgt
                /\ pc \in {"built", "queried"} =>
                      /\ \A a \in src : \E e \in edges :
                            e.type = "FEEDS_INTO" /\ e.from.id = a /\ e.to.id = id
                      /\ \A a \in tgt : \E e \in edges :
                            e.type = "PRODUCES" /\ e.from.id = id /\ e.to.id = a

\* C6: the source tables of a text of clauses are exactly the upper-cased
\* identifiers of its FROM/JOIN clauses and the target tables exactly those of
\* its INSERT INTO/UPDATE/DELETE FROM clauses, whatever the order.
C6_ExactlyTheClauseIdentifiers ==
    pc = "parsed" =>
        /\ tables.source_tables =
              {StrUpper(c.id) : c \in {k \in Range(sql) : k.kw \in SourceKeywords}}
        /\ tables.target_tables =
              {StrUpper(c.id) : c \in {k \in Range(sql) : k.kw \in TargetKeywords}}

\* C7: every SQL task of an extracted document has a transformation of type
\* sql_task, with empty source and target lists when the task has no statement
\* or the statement names no table.
C7_EverySqlTaskHasTransformation ==
    Extracted =>
        \A task \in Range(LastCall.sqltasks) :
            LET id == TaskId(LastCall.stem, task)
            IN  /\ id \in DOMAIN transformations
                /\ transformations[id].type = "sql_task"
                /\ ( \/ ~HasStatement(task)
                     \/ ( TaskTables(task).source_tables = {}
                          /\ TaskTables(task).target_tables = {} ) )
                   => ( AsSet(transformations[id].source_assets) = {}
                        /\ AsSet(transformations[id].target_assets) = {} )

\* The extractor after the well-formed documents of a batch alone.
RECURSIVE ExtractAll(_, _)
ExtractAll(st, docs) ==
    IF docs = <<>> THEN st
    ELSE LET r == ExtractFromDtsx(st, docs[1])
         IN  ExtractAll([assets |-> r.assets, transformations |-> r.transformations],
                        Tail(docs))
WithoutMalformed ==
    ExtractAll([assets |-> EmptyDict, transformations |-> EmptyDict],
               SelectSeq(history, WasExtracted))

\* C8: a document that is not well-formed changes nothing, and the entities of
\* the batch are those of the batch without it.
C8_MalformedDocumentSkipped ==
    /\ (Calls # <<>> /\ ~LastCall.wellformed) =>
          /\ assets = prev.assets
          /\ transformations = prev.transformations
    /\ all_assets = WithoutMalformed.assets
    /\ all_transformations = WithoutMalformed.transformations
    /\ assets = all_assets
    /\ transformations = all_transformations

C8_Witness ==
    /\ Len(history) = 3
    /\ WasExtracted(history[1]) /\ history[2] = Malformed /\ WasExtracted(history[3])
    /\ DOMAIN all_assets # DOMAIN prev.assets
    /\ prev.assets # EmptyDict
    /\ pc = "built"

Built == pc \in {"built", "queried"}
EdgeIds(type) == {<<e.from.id, e.to.id>> : e \in {f \in edges : f.type = type}}
NodeIds(label) == {n.id : n \in {m \in nodes : m.label = label}}

\* C9: the built graph has a FEEDS_INTO edge (a, t) exactly for the ids a of
\* t.source_assets that name a registered asset and a PRODUCES edge (t, a)
\* exactly for those of t.target_assets; an id that names no registered asset
\* gives no edge and no node.
C9_EdgesOfRegisteredReferences ==
    Built =>
        /\ EdgeIds("FEEDS_INTO") =
              UNION {{<<a, t.id>> : a \in AsSet(t.source_assets) \cap DOMAIN all_assets} :
                     t \in DictValues(all_transformations)}
        /\ EdgeIds("PRODUCES") =
              UNION {{<<t.id, a>> : a \in AsSet(t.target_assets) \cap DOMAIN all_assets} :
                     t \in DictValues(all_transformations)}
        /\ \A e \in edges :
              /\ e.from \in nodes /\ e.to \in nodes
              /\ e.type = "FEEDS_INTO" => e.from.label = "Asset" /\ e.to.label = "Transformation"
              /\ e.type = "PRODUCES" => e.from.label = "Transformation" /\ e.to.label = "Asset"
        /\ NodeIds("Asset") = DOMAIN all_assets
        /\ NodeIds("Transformation") = DOMAIN all_transformations

C9_Witness ==
    /\ pc = "built"
    /\ \E t \in DictValues(all_transformations) :
          /\ AsSet(t.source_assets) \ DOMAIN all_assets # {}
          /\ AsSet(t.source_assets) \cap DOMAIN all_assets # {}
          /\ AsSet(t.target_assets) \ DOMAIN all_assets # {}
          /\ AsSet(t.target_assets) \cap DOMAIN all_assets # {}
    /\ EdgeIds("FEEDS_INTO") # {} /\ EdgeIds("PRODUCES") # {}

\* C10: on every built graph get_lineage_for_asset returns, and every path it
\* returns has at most MaxHops + 1 entities, also on a graph with a cycle.
C10_PathsWithinMaxHops ==
    /\ pc = "built" => ENABLED QueryLineage
    /\ pc = "queried" => \A p \in lineage.lineage_paths : Len(p) <= MaxHops + 1

C10_Witness ==
    /\ pc = "queried"
    /\ \E e \in edges, f \in edges :
          /\ e.type = "FEEDS_INTO" /\ f.type = "PRODUCES"
          /\ e.to = f.from /\ f.to = e.from
          /\ lineage.asset = e.from.name

====
